---- MODULE Spec2Model ----
(***************************************************************************)
(* Model of the Spooky Code Pets extension services:                       *)
(*   - CommentaryScheduler (src/src/services/CommentaryScheduler.ts)       *)
(*   - LLMService and its retry queue (src/src/services/LLMService.ts)     *)
(*   - parseStructuredResponse (src/src/models/CommentaryResponseSchema.ts)*)
(* Strings are modelled as sequences of words, so that String.includes is  *)
(* a search for a contiguous run of words; reply texts are modelled by     *)
(* their lengths and their JSON reading.                                   *)
(***************************************************************************)
EXTENDS Integers, Sequences, FiniteSets, TLC

VARIABLES
  \* ---- CommentaryScheduler fields
  isRunning,                   \* CommentaryScheduler.isRunning
  cumulativeCharacterCount,    \* CommentaryScheduler.cumulativeCharacterCount
  isSpeechBubbleVisible,       \* CommentaryScheduler.isSpeechBubbleVisible
  charactersSinceBubbleShown,  \* CommentaryScheduler.charactersSinceBubbleShown
  commentaryFrequency,         \* setting spookyPets.commentaryFrequency as read by the getter
  hasActiveEditor,             \* vscode.window.activeTextEditor !== undefined
  generations,                 \* scheduler generateCommentary calls awaiting the LLM service
  processingShown,             \* last showProcessing / hideProcessing posted to the panel
  bubbleShown,                 \* last showSpeechBubble / hideSpeechBubble posted to the panel
  lastEvent,                   \* the event the host delivered last (history)
  \* ---- PetPanelProvider and the personality settings
  currentPet,                  \* PetPanelProvider._currentPet
  customPrompts,               \* setting spookyPets.customPrompts
  lastPersonality,             \* personality handed to the latest LLM request (history)
  generationFailed,            \* some generateCommentary of the scheduler has failed (history)
  typedSinceTrigger,           \* characters counted since the last automatic trigger (history)
  \* ---- LLMService fields
  secret,                      \* context.secrets value of spookyPets.apiKey
  calls,                       \* generateCommentary invocations: 0 is the one the queue
                               \* worker awaits, 1.. are the callers'
  retryQueue,                  \* LLMService.retryQueue
  isProcessingQueue,           \* LLMService.isProcessingQueue
  worker,                      \* position of processRetryQueue
  activeWorkers,               \* processRetryQueue loops begun and not yet left (history)
  nextItem,                    \* number of items enqueued so far (history)
  removed,                     \* items shifted off the queue, in order (history)
  \* ---- pure functions under test
  fnIn,                        \* input drawn for the function
  fnOut                        \* its result

schedVars == <<isRunning, cumulativeCharacterCount, isSpeechBubbleVisible,
               charactersSinceBubbleShown, commentaryFrequency, hasActiveEditor,
               generations, processingShown, bubbleShown, lastEvent>>
llmVars   == <<secret, calls, retryQueue, isProcessingQueue, worker, activeWorkers,
               nextItem, removed>>
fnVars    == <<fnIn, fnOut>>
petVars   == <<currentPet, customPrompts, lastPersonality>>
histVars  == <<generationFailed, typedSinceTrigger>>
vars      == <<schedVars, llmVars, fnVars, petVars, histVars>>

Max(a, b) == IF a >= b THEN a ELSE b
Min(a, b) == IF a <= b THEN a ELSE b

(***************************************************************************)
(* Strings as word sequences                                               *)
(***************************************************************************)
\* String.prototype.toLowerCase on one word
ToLowerCase(w) ==
  CASE w = "Network"      -> "network"
    [] w = "ECONNREFUSED" -> "econnrefused"
    [] w = "ENOTFOUND"    -> "enotfound"
    [] w = "ETIMEDOUT"    -> "etimedout"
    [] w = "ECONNRESET"   -> "econnreset"
    [] w = "EHOSTUNREACH" -> "ehostunreach"
    [] w = "API"          -> "api"
    [] w = "Invalid"      -> "invalid"
    [] w = "Rate"         -> "rate"
    [] w = "Internal"     -> "internal"
    [] w = "Server"       -> "server"
    [] w = "Error"        -> "error"
    [] w = "Authentication" -> "authentication"
    [] w = "Required"     -> "required"
    [] OTHER              -> w

LowerAll(s) == [i \in 1..Len(s) |-> ToLowerCase(s[i])]

\* String.prototype.includes: needle occurs as a contiguous run of s
Includes(s, needle) ==
  \E i \in 0..(Len(s) - Len(needle)) :
    \A j \in 1..Len(needle) : s[i + j] = needle[j]

(***************************************************************************)
(* Error messages of LLMService, as word sequences                         *)
(***************************************************************************)
MSG_API_KEY_MISSING == <<"API", "key", "not", "configured">>
MSG_INVALID_API_KEY == <<"Invalid", "API", "key">>
MSG_RATE_LIMIT      == <<"Rate", "limit", "exceeded">>
MSG_NO_CHOICES      == <<"Invalid", "API", "response", "no", "choices">>
MSG_NO_CONTENT      == <<"Invalid", "API", "response", "no", "message", "content">>

\* 'API request failed with status ' + response.status + ': ' + response.statusText
HttpFailedMessage(status, statusText) ==
  <<"API", "request", "failed", "with", "status", status>> \o statusText

\* node-fetch FetchError: 'request to ' + url + ' failed, reason: ' + err.message
FetchFailedMessage(code) == <<"request", "failed", "reason", "connect", code>>

(***************************************************************************)
(* CommentaryScheduler                                                     *)
(***************************************************************************)
\* bounds of the scheduler model
MaxInFlight == 2      \* generations awaiting the LLM service at one time
MaxCount    == 250    \* cap on the counter while the threshold is 0

\* values of spookyPets.commentaryFrequency the settings may hold
Frequencies == {-50, 0, 100, 200}
\* total length of the inserted text of one change event (0: a deletion)
CharsAdded  == {0, 50, 120}

Event(op, added, active, notice) ==
  [op |-> op, added |-> added, active |-> active, notice |-> notice]

\* the messages LLMService.generateCommentary can reject with
RejectionMessages ==
  { MSG_API_KEY_MISSING, MSG_INVALID_API_KEY, MSG_RATE_LIMIT, MSG_NO_CHOICES,
    HttpFailedMessage("500", <<"Internal", "Server", "Error">>) }

\* catch block of CommentaryScheduler.generateCommentary: which notification
SchedulerNotice(message) ==
  IF Includes(message, <<"API", "key">>) THEN "SetApiKeyPrompt"
  ELSE IF Includes(message, <<"Rate", "limit">>) THEN "RateLimitWarning"
  ELSE "FailedToGenerate"

\* five percent of the threshold, without the minimum of 10
DismissThreshold_NoMinimum(threshold) == (threshold * 5) \div 100
\* Math.max(10, Math.floor(threshold * 0.05))
DismissThreshold(threshold) == Max(10, (threshold * 5) \div 100)

\* a trigger that fires only above the threshold
ThresholdReached_Strict(count, threshold) == count > threshold
\* handleTextChange: this.cumulativeCharacterCount >= threshold
ThresholdReached(count, threshold) == count >= threshold

\* a scheduler that negative thresholds switch off too
AutomaticDisabled_NonPositive(threshold) == threshold <= 0
\* a scheduler that has no off switch
AutomaticDisabled_Never(threshold) == FALSE
\* handleTextChange: threshold === 0, automatic commentary is disabled
AutomaticDisabled(threshold) == threshold = 0

\* enum PetType
PetType == {"pumpkin", "skeleton", "ghost"}
\* PERSONALITIES[pet].systemPrompt: the first words of each prompt
PERSONALITIES ==
  [pet \in PetType |->
     [systemPrompt |->
        CASE pet = "pumpkin"  -> <<"You", "are", "a", "mischievous", "pumpkin", "pet">>
          [] pet = "skeleton" -> <<"You", "are", "a", "wise", "but", "slightly",
                                   "sarcastic", "skeleton", "pet">>
          [] pet = "ghost"    -> <<"You", "are", "a", "mysterious", "and", "ethereal",
                                   "ghost", "pet">>]]

\* an entry of a settings object: absent (undefined), or a string
Undefined == [present |-> FALSE, value |-> <<>>]
Defined(text) == [present |-> TRUE, value |-> text]
\* strings a user may store as a custom prompt; <<>> is the empty string
PromptStrings == { <<>>, <<"Talk", "like", "a", "pirate">> }
\* ConfigurationManager.getCustomPrompt: customPrompts[pet]
getCustomPrompt(prompts, pet) == prompts[pet]

\* a choice that ignores the custom prompt
OrElse_Second(first, second) == second
\* JavaScript first || second, first a string or undefined, second a string
OrElse(first, second) ==
  IF first.present /\ first.value # <<>> THEN first.value ELSE second

\* generateCommentary: customPrompt || PERSONALITIES[currentPet].systemPrompt
GenerationPersonality(pet, prompts) ==
  OrElse(getCustomPrompt(prompts, pet), PERSONALITIES[pet].systemPrompt)

\* CommentaryScheduler.generateCommentary up to its await: indicator shown,
\* context and personality taken, request handed to the LLM service
BeginGeneration(trigger) ==
  /\ Len(generations) < MaxInFlight
  /\ generations' = Append(generations, [trigger |-> trigger])
  /\ processingShown' = TRUE
  /\ lastPersonality' = GenerationPersonality(currentPet, customPrompts)

\* a dismissal that leaves the dismiss counter where it was
DismissSpeechBubble_KeepsCounter ==
  /\ bubbleShown' = FALSE
  /\ isSpeechBubbleVisible' = FALSE
  /\ UNCHANGED charactersSinceBubbleShown
\* a dismissal that tells the panel and forgets the scheduler's own flags
DismissSpeechBubble_PanelOnly ==
  /\ bubbleShown' = FALSE
  /\ UNCHANGED <<isSpeechBubbleVisible, charactersSinceBubbleShown>>
\* CommentaryScheduler.dismissSpeechBubble
DismissSpeechBubble ==
  /\ bubbleShown' = FALSE
  /\ isSpeechBubbleVisible' = FALSE
  /\ charactersSinceBubbleShown' = 0

\* CommentaryScheduler.start
Start ==
  /\ lastEvent' = Event("start", 0, FALSE, "none")
  /\ IF isRunning
       THEN UNCHANGED <<isRunning, cumulativeCharacterCount>>
       ELSE /\ isRunning' = TRUE
            /\ cumulativeCharacterCount' = 0
  /\ UNCHANGED <<isSpeechBubbleVisible, charactersSinceBubbleShown, commentaryFrequency,
                 hasActiveEditor, generations, processingShown, bubbleShown>>
  /\ UNCHANGED <<llmVars, fnVars, histVars, petVars>>

\* a stop that leaves the count where it was
Stop_KeepsCount ==
  /\ lastEvent' = Event("stop", 0, FALSE, "none")
  /\ isRunning' = FALSE
  /\ UNCHANGED <<cumulativeCharacterCount, isSpeechBubbleVisible,
                 charactersSinceBubbleShown, commentaryFrequency, hasActiveEditor,
                 generations, processingShown, bubbleShown>>
  /\ UNCHANGED <<llmVars, fnVars, histVars, petVars>>

\* CommentaryScheduler.stop
Stop ==
  /\ lastEvent' = Event("stop", 0, FALSE, "none")
  /\ IF ~isRunning
       THEN UNCHANGED <<isRunning, cumulativeCharacterCount>>
       ELSE /\ isRunning' = FALSE
            /\ cumulativeCharacterCount' = 0
  /\ UNCHANGED <<isSpeechBubbleVisible, charactersSinceBubbleShown, commentaryFrequency,
                 hasActiveEditor, generations, processingShown, bubbleShown>>
  /\ UNCHANGED <<llmVars, fnVars, histVars, petVars>>

\* CommentaryScheduler.resetCharacterCount
ResetCharacterCount ==
  /\ lastEvent' = Event("reset", 0, FALSE, "none")
  /\ cumulativeCharacterCount' = 0
  /\ UNCHANGED <<isRunning, isSpeechBubbleVisible, charactersSinceBubbleShown,
                 commentaryFrequency, hasActiveEditor, generations, processingShown,
                 bubbleShown>>
  /\ UNCHANGED <<llmVars, fnVars, histVars, petVars>>

\* the configuration-changed listener of activate(): the setting takes the
\* value f (possibly the one it had) and updateFrequency resets the count
ConfigurationChanged(f) ==
  /\ lastEvent' = Event("configChanged", 0, FALSE, "none")
  /\ commentaryFrequency' = f
  /\ cumulativeCharacterCount' = 0
  /\ UNCHANGED <<isRunning, isSpeechBubbleVisible, charactersSinceBubbleShown,
                 hasActiveEditor, generations, processingShown, bubbleShown>>
  /\ UNCHANGED <<llmVars, fnVars, histVars, petVars>>

\* the onDidChangeActiveTextEditor listener registered by start(); editor is
\* FALSE when the last editor was closed
ActiveEditorChanged(editor) ==
  /\ lastEvent' = Event("editorChanged", 0, editor,
                        IF isRunning /\ editor /\ isSpeechBubbleVisible
                          THEN "hideSpeechBubble" ELSE "none")
  /\ hasActiveEditor' = editor
  /\ IF isRunning /\ editor
       THEN /\ cumulativeCharacterCount' = 0
            /\ IF isSpeechBubbleVisible
                 THEN DismissSpeechBubble
                 ELSE UNCHANGED <<bubbleShown, isSpeechBubbleVisible,
                                  charactersSinceBubbleShown>>
       ELSE UNCHANGED <<cumulativeCharacterCount, bubbleShown, isSpeechBubbleVisible,
                        charactersSinceBubbleShown>>
  /\ UNCHANGED <<isRunning, commentaryFrequency, generations, processingShown>>
  /\ UNCHANGED <<llmVars, fnVars, histVars, petVars>>

\* handleTextChange reaches dismissSpeechBubble: the event is counted, a
\* bubble is up and the characters typed since reach the dismiss threshold
TypingDismisses(added, inActiveDocument) ==
  /\ isRunning /\ hasActiveEditor /\ inActiveDocument
  /\ isSpeechBubbleVisible
  /\ charactersSinceBubbleShown + added >= DismissThreshold(commentaryFrequency)

\* CommentaryScheduler.handleTextChange for an event that inserts `added`
\* characters; inActiveDocument: event.document is the active editor's document
\* (the history variables are left to the specification)
HandleTextChange(added, inActiveDocument) ==
  /\ lastEvent' = Event("textChange", added, inActiveDocument,
                        IF TypingDismisses(added, inActiveDocument)
                          THEN "hideSpeechBubble" ELSE "none")
  /\ UNCHANGED <<isRunning, commentaryFrequency, hasActiveEditor>>
  /\ IF ~isRunning \/ ~hasActiveEditor \/ ~inActiveDocument
       THEN UNCHANGED <<cumulativeCharacterCount, isSpeechBubbleVisible,
                        charactersSinceBubbleShown, generations, processingShown,
                        bubbleShown, lastPersonality>>
       ELSE LET count == cumulativeCharacterCount + added
                since == charactersSinceBubbleShown + added
            IN  /\ count <= MaxCount
                /\ IF isSpeechBubbleVisible
                     THEN IF TypingDismisses(added, inActiveDocument)
                            THEN DismissSpeechBubble
                            ELSE /\ charactersSinceBubbleShown' = since
                                 /\ UNCHANGED <<bubbleShown, isSpeechBubbleVisible>>
                     ELSE UNCHANGED <<bubbleShown, isSpeechBubbleVisible,
                                      charactersSinceBubbleShown>>
                /\ IF AutomaticDisabled(commentaryFrequency)
                     THEN /\ cumulativeCharacterCount' = count
                          /\ UNCHANGED <<generations, processingShown, lastPersonality>>
                     ELSE IF ThresholdReached(count, commentaryFrequency)
                            THEN /\ cumulativeCharacterCount' = 0
                                 /\ BeginGeneration("auto")
                            ELSE /\ cumulativeCharacterCount' = count
                                 /\ UNCHANGED <<generations, processingShown, lastPersonality>>
  /\ UNCHANGED <<llmVars, fnVars, currentPet, customPrompts>>

\* a manual trigger that begins a new accumulation cycle
TriggerManualCommentary_ResetsCount ==
  /\ lastEvent' = Event("manual", 0, hasActiveEditor,
                        IF hasActiveEditor THEN "none" ELSE "NoActiveEditorWarning")
  /\ IF ~hasActiveEditor
       THEN UNCHANGED <<generations, processingShown, lastPersonality>>
       ELSE BeginGeneration("manual")
  /\ cumulativeCharacterCount' = 0
  /\ UNCHANGED <<isRunning, isSpeechBubbleVisible, charactersSinceBubbleShown,
                 commentaryFrequency, hasActiveEditor, bubbleShown>>
  /\ UNCHANGED <<llmVars, fnVars, histVars, currentPet, customPrompts>>

\* CommentaryScheduler.triggerManualCommentary; without an editor it shows
\* the warning 'No active editor to generate commentary for.' and returns
TriggerManualCommentary ==
  /\ lastEvent' = Event("manual", 0, hasActiveEditor,
                        IF hasActiveEditor THEN "none" ELSE "NoActiveEditorWarning")
  /\ IF ~hasActiveEditor
       THEN UNCHANGED <<generations, processingShown, lastPersonality>>
       ELSE BeginGeneration("manual")
  /\ UNCHANGED <<isRunning, cumulativeCharacterCount, isSpeechBubbleVisible,
                 charactersSinceBubbleShown, commentaryFrequency, hasActiveEditor,
                 bubbleShown>>
  /\ UNCHANGED <<llmVars, fnVars, histVars, currentPet, customPrompts>>

\* an event that names a pet
PetEvent(op, pet) ==
  [op |-> op, added |-> 0, active |-> FALSE, notice |-> "none", pet |-> pet]

\* the counter after WorkspaceConfiguration.update: a changed setting raises
\* the configuration event and activate()'s listener calls updateFrequency;
\* writing the value a setting already has may or may not raise it
CountAfterUpdate(changed) ==
  IF changed THEN {0} ELSE {0, cumulativeCharacterCount}

\* a showPet that leaves the previous pet current
ShownPet_Stale(previousPet, petType) == previousPet
\* PetPanelProvider.showPet: this._currentPet = petType
ShownPet(previousPet, petType) == petType

\* the spookyPets.selectPet command with petType picked: the setting is
\* written, the pet shown, the panel told to hide the bubble
SelectPet(petType) ==
  /\ lastEvent' = PetEvent("selectPet", petType)
  /\ cumulativeCharacterCount' \in CountAfterUpdate(petType # currentPet)
  /\ currentPet' = ShownPet(currentPet, petType)
  /\ bubbleShown' = FALSE
  /\ UNCHANGED <<isRunning, isSpeechBubbleVisible, charactersSinceBubbleShown,
                 commentaryFrequency, hasActiveEditor, generations, processingShown>>
  /\ UNCHANGED <<llmVars, fnVars, histVars, customPrompts, lastPersonality>>

\* ConfigurationManager.setCustomPrompt
SetCustomPrompt(pet, prompt) ==
  /\ lastEvent' = PetEvent("setCustomPrompt", pet)
  /\ customPrompts' = [customPrompts EXCEPT ![pet] = Defined(prompt)]
  /\ cumulativeCharacterCount' \in CountAfterUpdate(customPrompts'[pet] # customPrompts[pet])
  /\ UNCHANGED <<isRunning, isSpeechBubbleVisible, charactersSinceBubbleShown,
                 commentaryFrequency, hasActiveEditor, generations, processingShown,
                 bubbleShown>>
  /\ UNCHANGED <<llmVars, fnVars, histVars, currentPet, lastPersonality>>

\* ConfigurationManager.clearCustomPrompt
ClearCustomPrompt(pet) ==
  /\ lastEvent' = PetEvent("clearCustomPrompt", pet)
  /\ customPrompts' = [customPrompts EXCEPT ![pet] = Undefined]
  /\ cumulativeCharacterCount' \in CountAfterUpdate(customPrompts'[pet] # customPrompts[pet])
  /\ UNCHANGED <<isRunning, isSpeechBubbleVisible, charactersSinceBubbleShown,
                 commentaryFrequency, hasActiveEditor, generations, processingShown,
                 bubbleShown>>
  /\ UNCHANGED <<llmVars, fnVars, histVars, currentPet, lastPersonality>>

\* a click on the pet's canvas: the webview plays the interaction animation
\* and posts petClicked, which the provider answers with playInteraction;
\* neither touches the bubble or the scheduler
PetClicked ==
  /\ lastEvent' = Event("petClicked", 0, FALSE, "none")
  /\ UNCHANGED <<isRunning, cumulativeCharacterCount, isSpeechBubbleVisible,
                 charactersSinceBubbleShown, commentaryFrequency, hasActiveEditor,
                 generations, processingShown, bubbleShown>>
  /\ UNCHANGED <<llmVars, fnVars, histVars, petVars>>

RemoveAt(s, i) == [k \in 1..(Len(s) - 1) |-> IF k < i THEN s[k] ELSE s[k + 1]]

\* a scheduler that shows a response only if no newer request was started
GenerationResolves_NewestOnly(i) ==
  /\ i \in 1..Len(generations)
  /\ lastEvent' = Event("resolved", 0, FALSE, "none")
  /\ generations' = RemoveAt(generations, i)
  /\ processingShown' = FALSE
  /\ IF i = Len(generations)
       THEN /\ bubbleShown' = TRUE
            /\ isSpeechBubbleVisible' = TRUE
            /\ charactersSinceBubbleShown' = 0
       ELSE UNCHANGED <<bubbleShown, isSpeechBubbleVisible, charactersSinceBubbleShown>>
  /\ UNCHANGED <<isRunning, cumulativeCharacterCount, commentaryFrequency, hasActiveEditor>>
  /\ UNCHANGED <<llmVars, fnVars, histVars, petVars>>

\* generateCommentary after its await, the LLM service having resolved
GenerationResolves(i) ==
  /\ i \in 1..Len(generations)
  /\ lastEvent' = Event("resolved", 0, FALSE, "none")
  /\ generations' = RemoveAt(generations, i)
  /\ processingShown' = FALSE
  /\ bubbleShown' = TRUE
  /\ isSpeechBubbleVisible' = TRUE
  /\ charactersSinceBubbleShown' = 0
  /\ UNCHANGED <<isRunning, cumulativeCharacterCount, commentaryFrequency, hasActiveEditor>>
  /\ UNCHANGED <<llmVars, fnVars, histVars, petVars>>

\* an error no catch block takes: it leaves the handler that started the call
RethrownTo_NoCatch(trigger) == "caller"
\* where the error rethrown by generateCommentary's catch block ends: an
\* automatic generation's rejection is taken by the .catch of handleTextChange
\* and logged, a manual one's rejects triggerManualCommentary towards its caller
RethrownTo(trigger) == IF trigger = "auto" THEN "console.error" ELSE "caller"

\* a failed generation: the notification shown, what started the generation,
\* where the rethrown error ended
FailureEvent(notice, trigger) ==
  [op |-> "rejected", added |-> 0, active |-> FALSE, notice |-> notice,
   trigger |-> trigger, thrownTo |-> RethrownTo(trigger)]

\* errors thrown inside generateCommentary before the LLM service is reached
HandlerExceptions == { <<"Cannot", "read", "properties", "of", "undefined">> }

\* a catch block that gives the count back, so that the next edit triggers
GenerationRejects_RestoresCount(i, message) ==
  /\ i \in 1..Len(generations)
  /\ lastEvent' = FailureEvent(SchedulerNotice(message), generations[i].trigger)
  /\ generations' = RemoveAt(generations, i)
  /\ processingShown' = FALSE
  /\ cumulativeCharacterCount' = Max(cumulativeCharacterCount, commentaryFrequency)
  /\ UNCHANGED <<isRunning, isSpeechBubbleVisible, charactersSinceBubbleShown,
                 commentaryFrequency, hasActiveEditor, bubbleShown>>
  /\ UNCHANGED <<llmVars, fnVars, petVars>>

\* generateCommentary's catch block, the LLM service having rejected or a
\* statement of its try block having thrown (the history variables are left
\* to the specification)
GenerationRejects(i, message) ==
  /\ i \in 1..Len(generations)
  /\ lastEvent' = FailureEvent(SchedulerNotice(message), generations[i].trigger)
  /\ generations' = RemoveAt(generations, i)
  /\ processingShown' = FALSE
  /\ UNCHANGED <<isRunning, cumulativeCharacterCount, isSpeechBubbleVisible,
                 charactersSinceBubbleShown, commentaryFrequency, hasActiveEditor,
                 bubbleShown>>
  /\ UNCHANGED <<llmVars, fnVars, petVars>>

SchedInit ==
  /\ isRunning = FALSE
  /\ cumulativeCharacterCount = 0
  /\ isSpeechBubbleVisible = FALSE
  /\ charactersSinceBubbleShown = 0
  /\ commentaryFrequency \in Frequencies
  /\ hasActiveEditor \in BOOLEAN
  /\ generations = <<>>
  /\ processingShown = FALSE
  /\ bubbleShown = FALSE
  /\ lastEvent = Event("init", 0, FALSE, "none")

\* PetPanelProvider after construction, no custom prompt configured
PetInit ==
  /\ currentPet = "pumpkin"
  /\ customPrompts = [pet \in PetType |-> Undefined]
  /\ lastPersonality = <<>>

\* nothing has failed and nothing has been typed
HistInit ==
  /\ generationFailed = FALSE
  /\ typedSinceTrigger = 0

\* a specification that keeps no history
Untracked == UNCHANGED histVars

\* history of a text change: the characters handleTextChange counted since
\* the last time it started a generation, saturating at MaxCount
TrackTyping(added, inActiveDocument) ==
  /\ typedSinceTrigger' =
       IF ~isRunning \/ ~hasActiveEditor \/ ~inActiveDocument
         THEN typedSinceTrigger
         ELSE IF Len(generations') > Len(generations)
                THEN 0
                ELSE Min(typedSinceTrigger + added, MaxCount)
  /\ UNCHANGED generationFailed

\* history of a failed generation
TrackFailure ==
  /\ generationFailed' = TRUE
  /\ UNCHANGED typedSinceTrigger

SchedNext ==
  \/ Start
  \/ Stop
  \/ ResetCharacterCount
  \/ \E f \in Frequencies : ConfigurationChanged(f)
  \/ \E e \in BOOLEAN : ActiveEditorChanged(e)
  \/ \E a \in CharsAdded, d \in BOOLEAN : HandleTextChange(a, d) /\ Untracked
  \/ TriggerManualCommentary
  \/ \E i \in 1..MaxInFlight : GenerationResolves(i)
  \/ \E i \in 1..MaxInFlight, m \in RejectionMessages \cup HandlerExceptions :
       GenerationRejects(i, m) /\ Untracked
  \/ \E pet \in PetType : SelectPet(pet)
  \/ PetClicked


(***************************************************************************)
(* Reply texts and parseStructuredResponse                                 *)
(***************************************************************************)
\* A reply text: `lead` whitespace characters, `body` characters of text that
\* neither starts nor ends with whitespace, `trail` whitespace characters; json
\* is what JSON.parse makes of the text.
NotJson == [kind |-> "none", ctype |-> "missing", clen |-> 0, expression |-> "missing",
            stype |-> "missing", stenths |-> 0]
\* a JSON text that is no object: a string, a number, null, an array
JsonScalar == [NotJson EXCEPT !.kind = "other"]
\* {"commentary": ..., "expression": ..., "sentiment": ...}; ctype and stype are
\* "missing", "string", "number" or "other"; stenths is the sentiment in tenths
JsonObject(ctype, clen, expression, stype, stenths) ==
  [kind |-> "object", ctype |-> ctype, clen |-> clen, expression |-> expression,
   stype |-> stype, stenths |-> stenths]

Text(lead, body, trail, json) ==
  [lead |-> lead, body |-> body, trail |-> trail, json |-> json]
TextLength(t) == t.lead + t.body + t.trail

\* String.prototype.trim
Trim(t) == [t EXCEPT !.lead = 0, !.trail = 0]

MAX_COMMENTARY_LENGTH == 200
MIN_COMMENTARY_LENGTH == 1
SENTIMENT_MIN_TENTHS  == -10
SENTIMENT_MAX_TENTHS  == 10
ExpressionType == {"happy", "neutral", "concerned"}

\* CommentaryResponseSchema.parse succeeds on the parsed value
SchemaAccepts(json) ==
  /\ json.kind = "object"
  /\ json.ctype = "string"
  /\ json.clen >= MIN_COMMENTARY_LENGTH
  /\ json.clen <= MAX_COMMENTARY_LENGTH
  /\ json.expression \in ExpressionType
  /\ \/ json.stype = "missing"
     \/ /\ json.stype = "number"
        /\ json.stenths >= SENTIMENT_MIN_TENTHS
        /\ json.stenths <= SENTIMENT_MAX_TENTHS

\* a StructuredCommentaryResponse; the commentary is the JSON field
\* (from = "json") or the first len characters of the raw reply (from = "raw")
Response(from, len, expression, hasSentiment, stenths) ==
  [commentary |-> [from |-> from, len |-> len], expression |-> expression,
   sentiment |-> [present |-> hasSentiment, tenths |-> stenths], threw |-> FALSE]

\* the raw reply, not cut
SubstringLength_Uncut(t, n) == t.lead + t.body + t.trail
\* rawResponse.substring(0, n): its length
SubstringLength(t, n) == Min(TextLength(t), n)

parseStructuredResponse(rawResponse) ==
  IF rawResponse.json.kind # "none" /\ SchemaAccepts(rawResponse.json)
    THEN Response("json", rawResponse.json.clen, rawResponse.json.expression,
                  rawResponse.json.stype = "number", rawResponse.json.stenths)
    ELSE Response("raw", SubstringLength(rawResponse, MAX_COMMENTARY_LENGTH),
                  "neutral", FALSE, 0)


(***************************************************************************)
(* LLMService.buildRequest                                                 *)
(***************************************************************************)
\* a setting of the workspace configuration: absent, or a value
Unset == [present |-> FALSE, value |-> 0]
SetTo(v) == [present |-> TRUE, value |-> v]
\* WorkspaceConfiguration.get(key, defaultValue)
ConfigGet(setting, defaultValue) ==
  IF setting.present THEN setting.value ELSE defaultValue

DEFAULT_MAX_TOKENS == 75
\* ConfigurationManager.getMaxTokens
getMaxTokens(setting) == ConfigGet(setting, DEFAULT_MAX_TOKENS)

DEFAULT_COMMENTARY_FREQUENCY == 5
\* ConfigurationManager.getCommentaryFrequency
getCommentaryFrequency(setting) == ConfigGet(setting, DEFAULT_COMMENTARY_FREQUENCY)
\* ConfigurationManager.getSelectedPet: the stored string if it names a pet
getSelectedPet(setting) ==
  LET petString == ConfigGet(setting, "pumpkin")
  IN  IF petString \in {"pumpkin", "skeleton", "ghost"} THEN petString ELSE "pumpkin"
\* ConfigurationManager.getApiEndpoint
getApiEndpoint(setting) ==
  ConfigGet(setting, "https://api.openai.com/v1/chat/completions")
\* ConfigurationManager.getModel
getModel(setting) == ConfigGet(setting, "gpt-3.5-turbo")
DEFAULT_CONTEXT_LINES == 15
\* ConfigurationManager.getContextLines
getContextLines(setting) == ConfigGet(setting, DEFAULT_CONTEXT_LINES)
\* ConfigurationManager.getCustomPrompt on the whole setting: the default is
\* the empty object, whose entries are undefined
getCustomPromptOf(setting, pet) ==
  IF setting.present THEN setting.value[pet]
  ELSE [present |-> FALSE, value |-> <<>>]

\* every getter of ConfigurationManager applied to the settings
Getters(settings) ==
  [commentaryFrequency |-> getCommentaryFrequency(settings.commentaryFrequency),
   selectedPet |-> getSelectedPet(settings.selectedPet),
   apiEndpoint |-> getApiEndpoint(settings.apiEndpoint),
   model |-> getModel(settings.model),
   maxTokens |-> getMaxTokens(settings.maxTokens),
   contextLines |-> getContextLines(settings.contextLines),
   customPrompt |-> getCustomPromptOf(settings.customPrompts, "ghost")]

\* LLMService.extractCodeContext on a document of lineCount lines with the
\* cursor on line `line` (0-based): the snippet is the whole lines startLine
\* to endLine of the document
extractCodeContext(lineCount, line, contextLinesSetting) ==
  LET contextLines == getContextLines(contextLinesSetting)
      startLine == Max(0, line - (contextLines \div 2))
      endLine   == Min(lineCount - 1, line + (contextLines \div 2))
  IN  [startLine |-> startLine, endLine |-> endLine, lineNumber |-> line + 1]
\* snippet.split('\n').length for a snippet of whole lines
SnippetLines(context) == context.endLine - context.startLine + 1

\* temperature: 0.6, in tenths
TEMPERATURE_TENTHS == 6

JSON_FORMAT_REQUIREMENT ==
  <<"CRITICAL:", "Always", "respond", "with", "valid", "JSON">>

\* a prompt that leaves the code out
formatCodeContextPrompt_NoSnippet(codeContext) ==
  <<"Here's", "some", codeContext.language, "code", "from", codeContext.fileName,
    "around", "line", codeContext.lineNumber, "[fence]", codeContext.language,
    "[fence]", "IMPORTANT:", "You", "must", "respond", "with", "valid", "JSON">>
\* LLMService.formatCodeContextPrompt
formatCodeContextPrompt(codeContext) ==
  <<"Here's", "some", codeContext.language, "code", "from", codeContext.fileName,
    "around", "line", codeContext.lineNumber, "[fence]", codeContext.language>>
  \o codeContext.snippet
  \o <<"[fence]", "IMPORTANT:", "You", "must", "respond", "with", "valid", "JSON">>

\* the template literal: personality, a blank line, the CRITICAL sentence
EnhancedPersonality(personality) == personality \o JSON_FORMAT_REQUIREMENT

buildRequest(codeContext, personality, maxTokensSetting) ==
  [ messages |-> << [role |-> "system", content |-> EnhancedPersonality(personality)],
                    [role |-> "user", content |-> formatCodeContextPrompt(codeContext)] >>,
    max_tokens |-> getMaxTokens(maxTokensSetting),
    temperature |-> TEMPERATURE_TENTHS ]

(***************************************************************************)
(* LLMService: generateCommentary, makeApiRequest, the retry queue         *)
(***************************************************************************)
MaxRequests == 2      \* generateCommentary calls made by callers

MAX_RETRIES == 3
INITIAL_BACKOFF_MS == 1000
\* LLMService.calculateBackoff: INITIAL_BACKOFF_MS * Math.pow(2, retryCount)
calculateBackoff(retryCount) == INITIAL_BACKOFF_MS * (2 ^ retryCount)

\* the secret store's entry: absent, or a stored string
NoSecret == [present |-> FALSE, value |-> ""]
\* a store that keeps no empty string
StoredSecret_NonEmptyOnly(v) ==
  IF v = "" THEN NoSecret ELSE [present |-> TRUE, value |-> v]
\* secrets.store(API_KEY_SECRET, v)
StoredSecret(v) == [present |-> TRUE, value |-> v]
SecretStrings == {"", "sk-123"}
\* a key check that lets everything through
Truthy_Always(k) == TRUE
\* a key check that tests only for undefined
Truthy_DefinedOnly(k) == k.present
\* JavaScript truthiness of a string or undefined
Truthy(k) == k.present /\ k.value # ""

NetworkErrorPatterns ==
  { <<"ECONNREFUSED">>, <<"ENOTFOUND">>, <<"ETIMEDOUT">>, <<"ECONNRESET">>,
    <<"network">>, <<"fetch", "failed">> }

isNetworkError(message) ==
  \E pattern \in NetworkErrorPatterns :
    Includes(LowerAll(message), LowerAll(pattern))

isInvalidApiKeyError(message) ==
  \/ Includes(message, <<"Invalid", "API", "key">>)
  \/ Includes(message, <<"401">>)
  \/ Includes(message, <<"403">>)

isRateLimitError(message) ==
  \/ Includes(message, <<"Rate", "limit">>)
  \/ Includes(message, <<"429">>)

\* what one fetch can end with
EmptyText == Text(0, 0, 0, NotJson)
HttpOk(content)   == [kind |-> "ok", status |-> "200", statusText |-> <<"OK">>,
                      code |-> "", content |-> content]
HttpNoChoices     == [kind |-> "nochoices", status |-> "200", statusText |-> <<"OK">>,
                      code |-> "", content |-> EmptyText]
HttpStatus(st, t) == [kind |-> "status", status |-> st, statusText |-> t,
                      code |-> "", content |-> EmptyText]
FetchThrows(code) == [kind |-> "throw", status |-> "", statusText |-> <<>>,
                      code |-> code, content |-> EmptyText]

\* message contents the endpoint returns: a valid structured reply, plain text
\* longer than a bubble, whitespace only, the empty string
ValidReply      == Text(0, 60, 0, JsonObject("string", 20, "happy", "number", 5))
PlainLongReply  == Text(0, 300, 0, NotJson)
WhitespaceReply == Text(3, 0, 0, NotJson)
Contents == {ValidReply, PlainLongReply, WhitespaceReply, EmptyText}

HttpOutcomes ==
  {HttpOk(c) : c \in Contents}
  \cup {HttpNoChoices}
  \cup {HttpStatus("401", <<"Unauthorized">>), HttpStatus("403", <<"Forbidden">>),
        HttpStatus("429", <<"Too", "Many", "Requests">>),
        HttpStatus("500", <<"Internal", "Server", "Error">>),
        HttpStatus("511", <<"Network", "Authentication", "Required">>)}
  \cup {FetchThrows("ECONNREFUSED"), FetchThrows("EHOSTUNREACH")}

\* one generateCommentary invocation; item: the queue item it replays (0: none);
\* ticket: the queue item that holds its promise (0: none); err: the error it
\* failed with; by: whether it settled itself or the queue worker settled it;
\* sent: a fetch was issued; notice: the caller's notification; delay: the
\* milliseconds of the sleep of makeApiRequest in progress (0: none); answer:
\* the status of the HTTP answer that the latest sleep of the makeApiRequest
\* in progress followed ("": none, or fetch threw)
Idle == [pc |-> "none", retryCount |-> 0, err |-> <<>>, result |-> <<>>,
         by |-> "none", sent |-> FALSE, notice |-> "none", item |-> 0, ticket |-> 0,
         delay |-> 0, answer |-> ""]
NewInvocation(item) == [Idle EXCEPT !.pc = "getKey", !.item = item]

Settled(c) == calls[c].pc \in {"resolved", "rejected"}

\* this.retryQueue[0]
HeadItem(q) == q[1]
\* a queue that drops its newest item
Shift_DropsLast(q) == SubSeq(q, 1, Len(q) - 1)
\* this.retryQueue.shift()
Shift(q) == Tail(q)

\* the caller's catch (CommentaryScheduler.generateCommentary) for callers' calls
NoticeFor(c, message) == IF c = 0 THEN "none" ELSE SchedulerNotice(message)

\* top of the while loop of processRetryQueue, with queue q and invocations
\* cs, `loops` loops being under way, this one included; with the queue empty
\* this loop is left
WorkerLoop(q, cs, loops) ==
  IF Len(q) > 0
    THEN /\ isProcessingQueue' = TRUE
         /\ worker' = "awaiting"
         /\ activeWorkers' = loops
         /\ calls' = [cs EXCEPT ![0] = NewInvocation(HeadItem(q).id)]
    ELSE /\ isProcessingQueue' = FALSE
         /\ worker' = "idle"
         /\ activeWorkers' = loops - 1
         /\ calls' = [cs EXCEPT ![0] = Idle]

\* a guard that lets every enqueueing start a loop
MayStartWorker_Always(processing) == TRUE
\* queueForRetry: if (!this.isProcessingQueue), and the same test at the top
\* of processRetryQueue
MayStartWorker(processing) == ~processing

\* queueForRetry, and processRetryQueue up to its first await
queueForRetry(c, message) ==
  LET item   == [id |-> nextItem + 1, owner |-> c, retryCount |-> 0]
      q      == Append(retryQueue, item)
      queued == [calls EXCEPT ![c] = [@ EXCEPT !.pc = "queued", !.err = message,
                                                   !.ticket = item.id, !.answer = ""]]
  IN  /\ retryQueue' = q
      /\ nextItem' = nextItem + 1
      /\ IF MayStartWorker(isProcessingQueue)
           THEN WorkerLoop(q, queued, activeWorkers + 1)
           ELSE /\ calls' = queued
                /\ UNCHANGED <<isProcessingQueue, worker, activeWorkers>>
      /\ UNCHANGED removed

\* generateCommentary throws
Rejects(c, message) ==
  /\ calls' = [calls EXCEPT ![c] = [@ EXCEPT !.pc = "rejected", !.err = message,
                                              !.by = "self", !.answer = "",
                                              !.notice = NoticeFor(c, message)]]
  /\ UNCHANGED <<retryQueue, isProcessingQueue, worker, activeWorkers,
                 nextItem, removed>>

\* generateCommentary returns the parsed reply
Resolves(c, response) ==
  /\ calls' = [calls EXCEPT ![c] = [@ EXCEPT !.pc = "resolved", !.result = <<response>>,
                                              !.by = "self", !.answer = ""]]
  /\ UNCHANGED <<retryQueue, isProcessingQueue, worker, activeWorkers,
                 nextItem, removed>>

\* makeApiRequest sleeps before its next attempt
BacksOff(c, answer) ==
  /\ calls' = [calls EXCEPT ![c] = [@ EXCEPT !.pc = "backoff", !.answer = answer,
                                              !.delay = calculateBackoff(calls[c].retryCount)]]
  /\ UNCHANGED <<retryQueue, isProcessingQueue, worker, activeWorkers,
                 nextItem, removed>>

\* the catch block of makeApiRequest, then the catch block of generateCommentary
RequestFails(c, message, answer) ==
  IF isNetworkError(message) /\ calls[c].retryCount < MAX_RETRIES
    THEN BacksOff(c, answer)
    ELSE IF isNetworkError(message)
           THEN queueForRetry(c, message)
           ELSE Rejects(c, message)

\* a caller calls generateCommentary: the next unused invocation starts
CallGenerateCommentary(c) ==
  /\ c \in 1..MaxRequests
  /\ calls[c].pc = "none"
  /\ \A d \in 1..(c - 1) : calls[d].pc # "none"
  /\ calls' = [calls EXCEPT ![c] = NewInvocation(0)]
  /\ UNCHANGED <<secret, retryQueue, isProcessingQueue, worker, activeWorkers,
                 nextItem, removed>>
  /\ UNCHANGED <<schedVars, fnVars, histVars, petVars>>

\* generateCommentary after awaiting getApiKey(): the key check, then the fetch
KeyRead(c) ==
  /\ calls[c].pc = "getKey"
  /\ IF ~Truthy(secret)
       THEN Rejects(c, MSG_API_KEY_MISSING)
       ELSE /\ calls' = [calls EXCEPT ![c] = [@ EXCEPT !.pc = "fetch", !.sent = TRUE]]
            /\ UNCHANGED <<retryQueue, isProcessingQueue, worker, activeWorkers,
                 nextItem, removed>>
  /\ UNCHANGED secret
  /\ UNCHANGED <<schedVars, fnVars, histVars, petVars>>

\* makeApiRequest after awaiting fetch(...)
HttpResponds(c, outcome) ==
  /\ calls[c].pc = "fetch"
  /\ CASE outcome.kind = "throw" ->
            RequestFails(c, FetchFailedMessage(outcome.code), "")
       [] outcome.kind = "status" ->
            IF outcome.status \in {"401", "403"}
              THEN RequestFails(c, MSG_INVALID_API_KEY, outcome.status)
              ELSE IF outcome.status = "429"
                     THEN IF calls[c].retryCount < MAX_RETRIES
                            THEN BacksOff(c, outcome.status)
                            ELSE RequestFails(c, MSG_RATE_LIMIT, outcome.status)
                     ELSE RequestFails(c, HttpFailedMessage(outcome.status,
                                                            outcome.statusText),
                                       outcome.status)
       [] outcome.kind = "nochoices" ->
            RequestFails(c, MSG_NO_CHOICES, outcome.status)
       [] outcome.kind = "ok" ->
            IF TextLength(outcome.content) = 0
              THEN RequestFails(c, MSG_NO_CONTENT, outcome.status)
              ELSE Resolves(c, parseStructuredResponse(Trim(outcome.content)))
  /\ UNCHANGED secret
  /\ UNCHANGED <<schedVars, fnVars, histVars, petVars>>

\* the sleep of makeApiRequest ends: the next attempt is sent
BackoffElapses(c) ==
  /\ calls[c].pc = "backoff"
  /\ calls' = [calls EXCEPT ![c] = [@ EXCEPT !.pc = "fetch", !.retryCount = @ + 1,
                                              !.delay = 0]]
  /\ UNCHANGED <<secret, retryQueue, isProcessingQueue, worker, activeWorkers,
                 nextItem, removed>>
  /\ UNCHANGED <<schedVars, fnVars, histVars, petVars>>

\* the ids of the items of q that are not in q2
Gone(q, q2) ==
  LET left == {q2[i].id : i \in 1..Len(q2)}
  IN  SelectSeq([i \in 1..Len(q) |-> q[i].id], LAMBDA id : id \notin left)

\* processRetryQueue after its await: the replay resolved
WorkerReplayResolved ==
  /\ worker = "awaiting"
  /\ calls[0].pc = "resolved"
  /\ LET item == HeadItem(retryQueue)
         q    == Shift(retryQueue)
         cs   == [calls EXCEPT ![item.owner] =
                    [@ EXCEPT !.pc = "resolved", !.result = calls[0].result,
                              !.by = "worker"]]
     IN  /\ retryQueue' = q
         /\ removed' = removed \o Gone(retryQueue, q)
         /\ WorkerLoop(q, cs, activeWorkers)
  /\ UNCHANGED <<secret, nextItem>>
  /\ UNCHANGED <<schedVars, fnVars, histVars, petVars>>

\* processRetryQueue's catch block: the replay rejected
WorkerReplayRejected ==
  /\ worker = "awaiting"
  /\ calls[0].pc = "rejected"
  /\ LET item  == HeadItem(retryQueue)
         count == item.retryCount + 1
     IN  IF count >= MAX_RETRIES
           THEN LET q  == Shift(retryQueue)
                    cs == [calls EXCEPT ![item.owner] =
                             [@ EXCEPT !.pc = "rejected", !.err = calls[0].err,
                                       !.by = "worker",
                                       !.notice = NoticeFor(item.owner, calls[0].err)]]
                IN  /\ retryQueue' = q
                    /\ removed' = removed \o Gone(retryQueue, q)
                    /\ WorkerLoop(q, cs, activeWorkers)
           ELSE /\ retryQueue' = [retryQueue EXCEPT ![1].retryCount = count]
                /\ worker' = "sleeping"
                /\ calls' = [calls EXCEPT ![0] = Idle]
                /\ UNCHANGED <<isProcessingQueue, activeWorkers, removed>>
  /\ UNCHANGED <<secret, nextItem>>
  /\ UNCHANGED <<schedVars, fnVars, histVars, petVars>>

\* the sleep of processRetryQueue ends: the loop goes round
WorkerWakes ==
  /\ worker = "sleeping"
  /\ WorkerLoop(retryQueue, calls, activeWorkers)
  /\ UNCHANGED <<secret, retryQueue, nextItem, removed>>
  /\ UNCHANGED <<schedVars, fnVars, histVars, petVars>>

\* ConfigurationManager.getApiKey: what secrets.get returns
getApiKey(store) == store

\* the listeners of onConfigurationChanged: the one activate() registers
Listeners == {"updateFrequency"}
\* an operation that fires nothing
Notification_None(store) == [fired |-> 0, saw |-> store, received |-> {}]
\* configChangeEmitter.fire(), called once with the secret store as it is
\* then: every registered listener is called
Notification(store) == [fired |-> 1, saw |-> store, received |-> Listeners]

\* an operation on the API key: its argument and the notification it made
KeyEvent(op, key, notification) ==
  [op |-> op, added |-> 0, active |-> FALSE, notice |-> "none", key |-> key,
   fired |-> notification.fired, saw |-> notification.saw,
   received |-> notification.received]

\* the counter once the listeners in `received` have run
CountAfterNotification(received) ==
  IF "updateFrequency" \in received THEN 0 ELSE cumulativeCharacterCount

\* ConfigurationManager.setApiKey: the secret is stored, the configuration
\* event fires and activate()'s listener calls updateFrequency
SetApiKey(apiKey) ==
  /\ secret' = StoredSecret(apiKey)
  /\ lastEvent' = KeyEvent("setApiKey", apiKey, Notification(secret'))
  /\ cumulativeCharacterCount' = CountAfterNotification(lastEvent'.received)
  /\ UNCHANGED <<isRunning, isSpeechBubbleVisible, charactersSinceBubbleShown,
                 commentaryFrequency, hasActiveEditor, generations, processingShown,
                 bubbleShown>>
  /\ UNCHANGED <<calls, retryQueue, isProcessingQueue, worker, activeWorkers,
                 nextItem, removed>>
  /\ UNCHANGED <<fnVars, histVars, petVars>>

\* ConfigurationManager.clearApiKey
ClearApiKey ==
  /\ secret' = NoSecret
  /\ lastEvent' = KeyEvent("clearApiKey", "", Notification(secret'))
  /\ cumulativeCharacterCount' = CountAfterNotification(lastEvent'.received)
  /\ UNCHANGED <<isRunning, isSpeechBubbleVisible, charactersSinceBubbleShown,
                 commentaryFrequency, hasActiveEditor, generations, processingShown,
                 bubbleShown>>
  /\ UNCHANGED <<calls, retryQueue, isProcessingQueue, worker, activeWorkers,
                 nextItem, removed>>
  /\ UNCHANGED <<fnVars, histVars, petVars>>

LLMInit ==
  /\ secret \in {NoSecret} \cup {StoredSecret(v) : v \in SecretStrings}
  /\ calls = [c \in 0..MaxRequests |-> Idle]
  /\ retryQueue = <<>>
  /\ isProcessingQueue = FALSE
  /\ worker = "idle"
  /\ activeWorkers = 0
  /\ nextItem = 0
  /\ removed = <<>>

\* the steps of the service itself: awaited results arriving, timers firing
ServiceNext ==
  \/ \E c \in 0..MaxRequests : KeyRead(c)
  \/ \E c \in 0..MaxRequests, o \in HttpOutcomes : HttpResponds(c, o)
  \/ \E c \in 0..MaxRequests : BackoffElapses(c)
  \/ WorkerReplayResolved
  \/ WorkerReplayRejected
  \/ WorkerWakes

LLMNext ==
  \/ \E c \in 1..MaxRequests : CallGenerateCommentary(c)
  \/ \E v \in SecretStrings : SetApiKey(v)
  \/ ClearApiKey
  \/ ServiceNext

\* no function under test
NoCodeContext == [language |-> "", snippet |-> <<>>, lineNumber |-> "", fileName |-> ""]
NoSettings ==
  [commentaryFrequency |-> Unset, selectedPet |-> Unset, apiEndpoint |-> Unset,
   model |-> Unset, maxTokens |-> Unset, contextLines |-> Unset,
   customPrompts |-> Unset]
NoInput == [fn |-> "none", text |-> EmptyText, codeContext |-> NoCodeContext,
            personality |-> <<>>, maxTokens |-> Unset, settings |-> NoSettings,
            lineCount |-> 0, cursorLine |-> 0]
NoOutput == [fn |-> "none", response |-> <<>>, request |-> <<>>, values |-> <<>>,
             context |-> <<>>]
FnInit == fnIn = NoInput /\ fnOut = NoOutput

\* the scheduler alone, the LLM service answering as it may
Init == SchedInit /\ PetInit /\ HistInit /\ LLMInit /\ secret = NoSecret /\ FnInit
Next == SchedNext
Spec == Init /\ [][Next]_vars

\* the scheduler with the pet and its custom prompts changing: every text
\* change is of EditLength characters in the active document
EditLength == 120
InitPet ==
  /\ SchedInit /\ commentaryFrequency = 100 /\ hasActiveEditor = TRUE
  /\ PetInit /\ HistInit /\ LLMInit /\ secret = NoSecret /\ FnInit
NextPet ==
  \/ Start
  \/ \E pet \in PetType : SelectPet(pet)
  \/ \E pet \in PetType, prompt \in PromptStrings : SetCustomPrompt(pet, prompt)
  \/ \E pet \in PetType : ClearCustomPrompt(pet)
  \/ HandleTextChange(EditLength, TRUE) /\ Untracked
  \/ TriggerManualCommentary
  \/ \E i \in 1..MaxInFlight : GenerationResolves(i)
  \/ \E i \in 1..MaxInFlight : GenerationRejects(i, MSG_RATE_LIMIT) /\ Untracked
SpecPet == InitPet /\ [][NextPet]_vars

\* the scheduler with a bubble on display and small edits (0: a deletion),
\* under thresholds whose five percent is below, at and above 10
BubbleFrequencies == {100, 200, 1000}
BubbleEdits == {0, 5, 20}
InitBubble ==
  /\ SchedInit /\ commentaryFrequency = 200 /\ hasActiveEditor = TRUE
  /\ PetInit /\ HistInit /\ LLMInit /\ secret = NoSecret /\ FnInit
NextBubble ==
  \/ Start
  \/ Stop
  \/ \E f \in BubbleFrequencies : ConfigurationChanged(f)
  \/ \E e \in BOOLEAN : ActiveEditorChanged(e)
  \/ \E a \in BubbleEdits, d \in BOOLEAN : HandleTextChange(a, d) /\ Untracked
  \/ TriggerManualCommentary
  \/ \E i \in 1..MaxInFlight : GenerationResolves(i)
  \/ PetClicked
SpecBubble == InitBubble /\ [][NextBubble]_vars

\* the API key set and cleared while the scheduler counts typing
KeyStrings == SecretStrings \cup {"sk-followed-by-4096-characters"}
KeyEdit == 50
InitKey ==
  /\ SchedInit /\ commentaryFrequency = 200 /\ hasActiveEditor = TRUE
  /\ PetInit /\ HistInit /\ LLMInit /\ secret = NoSecret /\ FnInit
NextKey ==
  \/ Start
  \/ HandleTextChange(KeyEdit, TRUE) /\ Untracked
  \/ \E i \in 1..MaxInFlight : GenerationResolves(i)
  \/ \E v \in KeyStrings : SetApiKey(v)
  \/ ClearApiKey
SpecKey == InitKey /\ [][NextKey]_vars

\* the scheduler with its history kept: which generations failed, how much
\* was typed since the last automatic trigger
InitFailure == SchedInit /\ PetInit /\ HistInit /\ LLMInit /\ secret = NoSecret /\ FnInit
NextFailure ==
  \/ Start
  \/ Stop
  \/ ResetCharacterCount
  \/ \E f \in Frequencies : ConfigurationChanged(f)
  \/ \E e \in BOOLEAN : ActiveEditorChanged(e)
  \/ \E a \in CharsAdded, d \in BOOLEAN : HandleTextChange(a, d) /\ TrackTyping(a, d)
  \/ TriggerManualCommentary
  \/ \E i \in 1..MaxInFlight : GenerationResolves(i)
  \/ \E i \in 1..MaxInFlight, m \in RejectionMessages \cup HandlerExceptions :
       GenerationRejects(i, m) /\ TrackFailure
SpecFailure == InitFailure /\ [][NextFailure]_vars

\* the LLM service with its retry queue
InitLLM ==
  /\ SchedInit /\ commentaryFrequency = 200 /\ hasActiveEditor = TRUE
  /\ LLMInit /\ FnInit /\ PetInit /\ HistInit
SpecLLM == InitLLM /\ [][LLMNext]_vars

\* the LLM service with a key configured, every awaited result arriving and
\* every timer firing in the end
InitFair == InitLLM /\ secret = StoredSecret("sk-123")
NextFair ==
  \/ \E c \in 1..MaxRequests : CallGenerateCommentary(c)
  \/ ServiceNext
Fairness ==
  /\ \A c \in 0..MaxRequests :
       /\ WF_vars(KeyRead(c))
       /\ WF_vars(\E o \in HttpOutcomes : HttpResponds(c, o))
       /\ WF_vars(BackoffElapses(c))
  /\ WF_vars(WorkerReplayResolved)
  /\ WF_vars(WorkerReplayRejected)
  /\ WF_vars(WorkerWakes)
FairLLM == InitFair /\ [][NextFair]_vars /\ Fairness

\* C3: every request placed on the retry queue is settled in the end
C3_QueuedCallsSettle ==
  \A c \in 1..MaxRequests : (calls[c].pc = "queued") ~> Settled(c)

(***************************************************************************)
(* The pure functions, applied to inputs drawn from bounded sets           *)
(***************************************************************************)
\* reply texts handed to parseStructuredResponse
PlainLengths      == {0, 1, 150, 200, 201, 300}
CommentaryLengths == {0, 1, 200, 201}
SentimentTenths   == {-11, -10, 0, 10, 11}
JsonValues ==
  {NotJson, JsonScalar}
  \cup { JsonObject(ct, IF ct = "string" THEN n ELSE 0, e, st,
                    IF st = "number" THEN sv ELSE 0) :
           ct \in {"missing", "string", "number"}, n \in CommentaryLengths,
           e \in ExpressionType \cup {"angry", "missing"},
           st \in {"missing", "number", "other"}, sv \in SentimentTenths }
\* the text of a JSON value is longer than the commentary it holds
JsonTextOverhead == 40
ReplyTexts ==
  { Text(lead, n, 0, NotJson) : lead \in {0, 2}, n \in PlainLengths }
  \cup { Text(lead, j.clen + JsonTextOverhead, 0, j) :
           lead \in {0, 2}, j \in JsonValues \ {NotJson} }

\* inputs of buildRequest
Personalities == { <<>>, <<"spooky">>, <<"You", "are", "a", "helpful", "assistant">> }
Snippets      == { <<>>, <<"const", "x", "=", "1;">>, <<"[fence]">> }
CodeContexts ==
  { [language |-> l, snippet |-> sn, lineNumber |-> ln, fileName |-> "test.ts"] :
      l \in {"typescript", "python"}, sn \in Snippets, ln \in {"1", "42"} }
\* spookyPets.maxTokens: unset, or within the range its schema declares
MaxTokensSettings == {Unset, SetTo(20), SetTo(75), SetTo(200)}

\* settings the user may have written, each absent or present
SettingsInputs ==
  [commentaryFrequency : {Unset, SetTo(1000)},
   selectedPet : {Unset, SetTo("ghost"), SetTo("dragon")},
   apiEndpoint : {Unset, SetTo("http://localhost:1234/v1/chat/completions")},
   model : {Unset, SetTo("gpt-4")},
   maxTokens : {Unset, SetTo(200)},
   contextLines : {Unset, SetTo(5)},
   customPrompts : {Unset,
                    SetTo([pet \in {"pumpkin", "skeleton", "ghost"} |->
                             IF pet = "ghost"
                               THEN [present |-> TRUE, value |-> <<"Boo">>]
                               ELSE [present |-> FALSE, value |-> <<>>]])}]

\* documents by their number of lines, and spookyPets.contextLines unset or
\* within the range its schema declares
LineCounts == {1, 4, 12, 60}
ContextLinesSettings == {Unset, SetTo(5), SetTo(10), SetTo(50)}
\* editors: a document and a cursor line inside it
Editors ==
  { e \in [lineCount : LineCounts, cursorLine : {0, 1, 6, 11, 30, 59}] :
      e.cursorLine < e.lineCount }

FnInputs ==
  { [NoInput EXCEPT !.fn = "getters", !.settings = st] : st \in SettingsInputs }
  \cup
  { [NoInput EXCEPT !.fn = "extractCodeContext", !.lineCount = e.lineCount,
                    !.cursorLine = e.cursorLine,
                    !.settings = [NoSettings EXCEPT !.contextLines = cl]] :
      e \in Editors, cl \in ContextLinesSettings }
  \cup
  { [NoInput EXCEPT !.fn = "parseStructuredResponse", !.text = t] : t \in ReplyTexts }
  \cup { [NoInput EXCEPT !.fn = "buildRequest", !.codeContext = cc, !.personality = p,
                         !.maxTokens = mt] :
           cc \in CodeContexts, p \in Personalities, mt \in MaxTokensSettings }

ApplyParseStructuredResponse ==
  /\ fnIn.fn = "parseStructuredResponse"
  /\ fnOut.fn = "none"
  /\ fnOut' = [NoOutput EXCEPT !.fn = fnIn.fn,
                               !.response = <<parseStructuredResponse(fnIn.text)>>]
  /\ UNCHANGED <<fnIn, histVars, schedVars, llmVars, petVars>>

ApplyBuildRequest ==
  /\ fnIn.fn = "buildRequest"
  /\ fnOut.fn = "none"
  /\ fnOut' = [NoOutput EXCEPT !.fn = fnIn.fn,
                               !.request = <<buildRequest(fnIn.codeContext,
                                                          fnIn.personality,
                                                          fnIn.maxTokens)>>]
  /\ UNCHANGED <<fnIn, histVars, schedVars, llmVars, petVars>>

ApplyGetters ==
  /\ fnIn.fn = "getters"
  /\ fnOut.fn = "none"
  /\ fnOut' = [NoOutput EXCEPT !.fn = fnIn.fn, !.values = <<Getters(fnIn.settings)>>]
  /\ UNCHANGED <<fnIn, histVars, schedVars, llmVars, petVars>>

ApplyExtractCodeContext ==
  /\ fnIn.fn = "extractCodeContext"
  /\ fnOut.fn = "none"
  /\ fnOut' = [NoOutput EXCEPT !.fn = fnIn.fn,
                               !.context = <<extractCodeContext(fnIn.lineCount,
                                                                fnIn.cursorLine,
                                                                fnIn.settings.contextLines)>>]
  /\ UNCHANGED <<fnIn, histVars, schedVars, llmVars, petVars>>

InitFn ==
  /\ SchedInit /\ commentaryFrequency = 200 /\ hasActiveEditor = TRUE
  /\ LLMInit /\ secret = NoSecret /\ PetInit /\ HistInit
  /\ fnIn \in FnInputs
  /\ fnOut = NoOutput
NextFn ==
  \/ ApplyParseStructuredResponse
  \/ ApplyBuildRequest
  \/ ApplyGetters
  \/ ApplyExtractCodeContext
SpecFn == InitFn /\ [][NextFn]_vars

(***************************************************************************)
(* Properties of the LLM service (specifications SpecLLM, FairLLM)         *)
(***************************************************************************)
QueueIds == {retryQueue[i].id : i \in 1..Len(retryQueue)}
RemovedIds == {removed[i] : i \in 1..Len(removed)}

\* C4: the retry queue is FIFO. Items carry the number of their enqueueing;
\* they leave the queue in that order, the queue holds the remaining ones in
\* that order, the replay in progress is that of the oldest item left, and a
\* call the worker has settled had its item removed, with every older item,
\* while a call still queued has its item in the queue.
C4_Fifo ==
  /\ \A i \in 1..Len(removed) : removed[i] = i
  /\ \A i \in 1..Len(retryQueue) : retryQueue[i].id = Len(removed) + i
  /\ calls[0].pc # "none" => calls[0].item = Len(removed) + 1
  /\ \A c \in 0..MaxRequests :
       /\ calls[c].by = "worker" => calls[c].ticket \in RemovedIds
       /\ calls[c].pc = "queued" => calls[c].ticket \in QueueIds

\* C4 witness: two requests were queued, both were replayed and settled by
\* the worker, the first before the second
C4_Witness ==
  /\ removed = <<1, 2>>
  /\ calls[1].by = "worker" /\ calls[1].ticket = 1
  /\ calls[2].by = "worker" /\ calls[2].ticket = 2

\* the message of an HTTP error answer
IsHttpErrorMessage(message) ==
  Includes(message, <<"API", "request", "failed", "with", "status">>)

\* C5: a call whose request fails with a network-class error is queued, not
\* rejected; and only such failures are queued: a call is never queued for a
\* missing credential, for HTTP 401/403, for an exhausted HTTP 429 or for any
\* other HTTP error answer.
C5_OnlyNetworkFailuresQueued ==
  \A c \in 0..MaxRequests :
    /\ (calls[c].pc = "rejected" /\ calls[c].by = "self") =>
         ~isNetworkError(calls[c].err)
    /\ calls[c].pc = "queued" =>
         /\ calls[c].err \notin {MSG_API_KEY_MISSING, MSG_INVALID_API_KEY, MSG_RATE_LIMIT}
         /\ ~IsHttpErrorMessage(calls[c].err)

\* the step in which invocation c, having awaited the key, finds none stored
KeyMissingStep(c) ==
  /\ calls[c].pc = "getKey"
  /\ calls'[c].pc # "getKey"
  /\ ~secret.present

\* C6: with no credential stored, generateCommentary rejects with a message
\* that mentions 'API key', issues no fetch and leaves the retry queue alone;
\* the scheduler's catch block answers that message with the Set API Key
\* prompt.
C6_MissingKeyFailsFast ==
  [][ \A c \in 0..MaxRequests :
        KeyMissingStep(c) =>
          /\ calls'[c].pc = "rejected"
          /\ Includes(calls'[c].err, <<"API", "key">>)
          /\ ~calls'[c].sent
          /\ retryQueue' = retryQueue
          /\ calls'[c].ticket = 0
          /\ SchedulerNotice(calls'[c].err) = "SetApiKeyPrompt"
          /\ c # 0 => calls'[c].notice = "SetApiKeyPrompt" ]_vars

\* C6 witness: no credential is stored and a caller's call has been rejected
\* for it, no fetch issued, never queued, the prompt shown
C6_Witness ==
  /\ ~secret.present
  /\ calls[1].pc = "rejected"
  /\ calls[1].by = "self"
  /\ calls[1].err = MSG_API_KEY_MISSING
  /\ ~calls[1].sent
  /\ calls[1].ticket = 0
  /\ calls[1].notice = "SetApiKeyPrompt"

\* C8: every value generateCommentary resolves with has a commentary of 1 to
\* 200 characters, an expression among happy, neutral, concerned and, when
\* present, a sentiment within [-1, 1].
C8_ResolvedValueWellFormed ==
  \A c \in 0..MaxRequests :
    calls[c].pc = "resolved" =>
      LET r == calls[c].result[1]
      IN  /\ r.commentary.len >= 1
          /\ r.commentary.len <= 200
          /\ r.expression \in {"happy", "neutral", "concerned"}
          /\ r.sentiment.present =>
               (r.sentiment.tenths >= -10 /\ r.sentiment.tenths <= 10)

\* the step in which makeApiRequest of invocation c goes to sleep
BackoffStep(c) == calls[c].pc = "fetch" /\ calls'[c].pc = "backoff"

\* C24: one request makes at most MAX_RETRIES + 1 = 4 HTTP attempts; the
\* sleep before retry k+1 lasts 1000 * 2^k ms; a retry that followed an
\* answer of HTTP 429 and is answered otherwise than by 429 ends the sequence
\* at once, without another sleep; after the fourth 429 the request is
\* rejected with 'Rate limit exceeded' and not queued; an answer of 401/403
\* rejects without a retry.
C24_RateLimitBackoff ==
  [][ \A c \in 0..MaxRequests :
        /\ calls'[c].retryCount + 1 <= 4
        /\ BackoffStep(c) =>
             /\ calls[c].retryCount < 3
             /\ calls'[c].delay = 1000 * (2 ^ calls[c].retryCount)
             /\ (calls[c].retryCount >= 1 /\ calls[c].answer = "429"
                   /\ calls'[c].answer # "") => calls'[c].answer = "429"
        /\ (calls[c].pc = "fetch" /\ calls'[c].err = MSG_RATE_LIMIT) =>
             /\ calls[c].retryCount = 3
             /\ calls'[c].pc = "rejected"
             /\ calls'[c].ticket = 0
             /\ retryQueue' = retryQueue
        /\ (calls[c].pc = "fetch" /\ calls'[c].err = MSG_INVALID_API_KEY) =>
             /\ calls'[c].pc = "rejected"
             /\ calls'[c].ticket = 0 ]_vars

(***************************************************************************)
(* Properties of the pure functions (specification SpecFn)                 *)
(***************************************************************************)
\* C7: parseStructuredResponse does not throw, and for a reply that is not
\* JSON, or is JSON the schema refuses, it returns the neutral expression and
\* as commentary the first 200 characters of the raw reply: the whole reply
\* when it is shorter, never more than 200 characters.
C7_FallbackNeutralTruncated ==
  fnOut.fn = "parseStructuredResponse" =>
    LET t == fnIn.text
        r == fnOut.response[1]
    IN  /\ ~r.threw
        /\ (t.json.kind = "none" \/ ~SchemaAccepts(t.json)) =>
             /\ r.expression = "neutral"
             /\ r.commentary.from = "raw"
             /\ r.commentary.len = (IF TextLength(t) <= 200 THEN TextLength(t) ELSE 200)
             /\ r.commentary.len <= 200
             /\ ~r.sentiment.present

\* C7 witness: a reply of 300 characters that is not JSON was parsed into a
\* neutral response whose commentary is its first 200 characters
C7_Witness ==
  /\ fnIn.text = Text(0, 300, 0, NotJson)
  /\ fnOut.fn = "parseStructuredResponse"
  /\ fnOut.response[1].expression = "neutral"
  /\ fnOut.response[1].commentary = [from |-> "raw", len |-> 200]

C10_SystemContentIsPersonality ==
  fnOut.fn = "buildRequest" =>
    fnOut.request[1].messages[1].content = fnIn.personality

\* C18: a getter whose setting has no configured value returns the
\* documented default: frequency 200, pet pumpkin, the OpenAI endpoint, model
\* gpt-3.5-turbo, 75 tokens, 15 context lines, no custom prompt.
C18_DocumentedDefaults ==
  fnOut.fn = "getters" =>
    LET settings == fnIn.settings
        values == fnOut.values[1]
    IN  /\ ~settings.commentaryFrequency.present => values.commentaryFrequency = 200
        /\ ~settings.selectedPet.present => values.selectedPet = "pumpkin"
        /\ ~settings.apiEndpoint.present =>
             values.apiEndpoint = "https://api.openai.com/v1/chat/completions"
        /\ ~settings.model.present => values.model = "gpt-3.5-turbo"
        /\ ~settings.maxTokens.present => values.maxTokens = 75
        /\ ~settings.contextLines.present => values.contextLines = 15
        /\ ~settings.customPrompts.present => ~values.customPrompt.present

\* C21: for any document, cursor line and configured contextLines value n,
\* the snippet of extractCodeContext contains the cursor line, starts and ends
\* inside the document and spans at most n lines; lineNumber is the cursor
\* line plus 1.
C21_ContextBounded ==
  fnOut.fn = "extractCodeContext" =>
    LET context == fnOut.context[1]
        n == getContextLines(fnIn.settings.contextLines)
    IN  /\ context.startLine <= fnIn.cursorLine
        /\ fnIn.cursorLine <= context.endLine
        /\ context.startLine >= 0
        /\ context.endLine <= fnIn.lineCount - 1
        /\ SnippetLines(context) <= n
        /\ context.lineNumber = fnIn.cursorLine + 1

(***************************************************************************)
(* Properties of the personality choice (specification SpecPet)            *)
(***************************************************************************)
\* a step in which the scheduler starts a generation
GenerationStartStep == Len(generations') = Len(generations) + 1

\* C11: the pet shown last is the current pet, and every generation started
\* while the current pet has no custom prompt hands the LLM request that
\* pet's predefined system prompt, never another pet's.
C11_PersonalityFollowsPetSwitch ==
  [][ /\ lastEvent'.op = "selectPet" => currentPet' = lastEvent'.pet
      /\ lastEvent'.op # "selectPet" => currentPet' = currentPet
      /\ (GenerationStartStep /\ ~customPrompts[currentPet].present) =>
           /\ lastPersonality' = PERSONALITIES[currentPet].systemPrompt
           /\ \A other \in PetType \ {currentPet} :
                lastPersonality' # PERSONALITIES[other].systemPrompt ]_vars

\* C11 witness: the pet was switched from the pumpkin, which has a custom
\* prompt, to the ghost, which has none, and the generation started after
\* that was handed the ghost's predefined prompt
C11_Witness ==
  /\ currentPet = "ghost"
  /\ customPrompts["pumpkin"] = Defined(<<"Talk", "like", "a", "pirate">>)
  /\ ~customPrompts["ghost"].present
  /\ lastEvent.op = "manual"
  /\ Len(generations) = 1
  /\ lastPersonality = PERSONALITIES["ghost"].systemPrompt

\* C12 as stated: every generation started while the current pet has a custom
\* prompt configured, whatever the string, is handed that custom prompt.
C12_AnyCustomPromptOverrides ==
  [][ (GenerationStartStep /\ customPrompts[currentPet].present) =>
        lastPersonality' = customPrompts[currentPet].value ]_vars

\* C12 amended: every generation started while the current pet has a
\* non-empty custom prompt configured is handed that custom prompt instead of
\* the pet's predefined personality.
C12_NonEmptyCustomPromptOverrides ==
  [][ (/\ GenerationStartStep
       /\ customPrompts[currentPet].present
       /\ customPrompts[currentPet].value # <<>>) =>
        lastPersonality' = customPrompts[currentPet].value ]_vars

\* C12 witness: the skeleton is current, has a custom prompt, and the
\* generation started by typing was handed it
C12_Witness ==
  /\ currentPet = "skeleton"
  /\ customPrompts["skeleton"] = Defined(<<"Talk", "like", "a", "pirate">>)
  /\ lastEvent.op = "textChange"
  /\ Len(generations) >= 1
  /\ lastPersonality = <<"Talk", "like", "a", "pirate">>

(***************************************************************************)
(* Properties of the scheduler (specification Spec)                        *)
(***************************************************************************)
\* the step delivers a text-change event for the active document to the
\* running scheduler
ActiveTextChangeStep ==
  /\ lastEvent'.op = "textChange"
  /\ lastEvent'.active
  /\ isRunning
  /\ hasActiveEditor

LastGeneration(g) == g[Len(g)]

\* C1: with the scheduler running and a positive threshold T, a text-change
\* event of the active document starts a generation exactly when the count
\* accumulated since the last reset, with the event's characters added, is at
\* least T; it then starts exactly one and leaves the counter at 0, the excess
\* discarded; otherwise it starts none and the counter keeps the sum.
C1_TriggerExactlyAtThreshold ==
  [][ (ActiveTextChangeStep /\ commentaryFrequency > 0) =>
        LET total == cumulativeCharacterCount + lastEvent'.added
        IN  IF total >= commentaryFrequency
              THEN /\ Len(generations') = Len(generations) + 1
                   /\ SubSeq(generations', 1, Len(generations)) = generations
                   /\ LastGeneration(generations').trigger = "auto"
                   /\ cumulativeCharacterCount' = 0
              ELSE /\ generations' = generations
                   /\ cumulativeCharacterCount' = total ]_vars

\* C1 witness: threshold 200, an edit of 50 characters has just been counted
\* and the counter is 0 again, so this edit was the one that reached 200 and
\* started the automatic generation in flight
C1_Witness ==
  /\ isRunning /\ hasActiveEditor
  /\ commentaryFrequency = 200
  /\ lastEvent = Event("textChange", 50, TRUE, "none")
  /\ cumulativeCharacterCount = 0
  /\ Len(generations) = 1
  /\ LastGeneration(generations).trigger = "auto"

\* C2: while the threshold is 0 no text-change event starts a generation,
\* whatever the count has grown to, and triggerManualCommentary with an
\* active editor starts one
C2_ZeroDisablesAutomaticOnly ==
  [][ /\ (lastEvent'.op = "textChange" /\ commentaryFrequency = 0) =>
           generations' = generations
      /\ (lastEvent'.op = "manual" /\ commentaryFrequency = 0 /\ hasActiveEditor) =>
           /\ Len(generations') = Len(generations) + 1
           /\ LastGeneration(generations').trigger = "manual" ]_vars

\* C2 witness: threshold 0, 200 characters or more typed and counted without
\* any automatic generation, and a manual trigger has just started one
C2_Witness ==
  /\ isRunning /\ hasActiveEditor
  /\ commentaryFrequency = 0
  /\ cumulativeCharacterCount >= 200
  /\ lastEvent.op = "manual"
  /\ generations = <<[trigger |-> "manual"]>>

(***************************************************************************)
(* Properties of the speech bubble (specification SpecBubble)              *)
(***************************************************************************)
\* C13: while a bubble is displayed the scheduler counts the characters
\* inserted in the active document since it was shown, and dismisses the
\* bubble on the first text change at which that count reaches
\* max(10, floor(threshold / 20)), not on an earlier one; showing a bubble
\* starts the count at 0.
C13_BubbleDismissedAfterTyping ==
  [][ /\ (ActiveTextChangeStep /\ isSpeechBubbleVisible) =>
           LET typed == charactersSinceBubbleShown + lastEvent'.added
               fivePercent == commentaryFrequency \div 20
               limit == IF fivePercent > 10 THEN fivePercent ELSE 10
           IN  IF typed >= limit
                 THEN /\ ~isSpeechBubbleVisible'
                      /\ ~bubbleShown'
                      /\ charactersSinceBubbleShown' = 0
                 ELSE /\ isSpeechBubbleVisible'
                      /\ bubbleShown' = bubbleShown
                      /\ charactersSinceBubbleShown' = typed
      /\ lastEvent'.op = "resolved" =>
           /\ isSpeechBubbleVisible'
           /\ bubbleShown'
           /\ charactersSinceBubbleShown' = 0 ]_vars

\* C13 witness: under threshold 1000 an edit of 5 characters made the
\* scheduler dismiss the bubble, which had stayed up through the edits before
C13_Witness ==
  /\ commentaryFrequency = 1000
  /\ lastEvent = Event("textChange", 5, TRUE, "hideSpeechBubble")
  /\ cumulativeCharacterCount >= 50
  /\ ~isSpeechBubbleVisible
  /\ ~bubbleShown
  /\ charactersSinceBubbleShown = 0
  /\ generations = <<>>

\* C14: a click on the pet while a bubble is displayed dismisses it: the
\* panel's bubble is hidden and the scheduler no longer holds a bubble as
\* displayed.
C14_ClickDismissesBubble ==
  [][ (lastEvent'.op = "petClicked" /\ isSpeechBubbleVisible /\ bubbleShown) =>
        /\ ~bubbleShown'
        /\ ~isSpeechBubbleVisible'
        /\ charactersSinceBubbleShown' = 0 ]_vars

(***************************************************************************)
(* Further properties of the scheduler (specification Spec)                *)
(***************************************************************************)
\* C15 as stated: while the scheduler is running, every change of the active
\* editor resets the character count to 0 and dismisses a displayed bubble.
C15_EveryEditorChangeResets ==
  [][ (lastEvent'.op = "editorChanged" /\ isRunning) =>
        /\ cumulativeCharacterCount' = 0
        /\ ~isSpeechBubbleVisible'
        /\ charactersSinceBubbleShown' = 0 ]_vars

\* C15 amended: while the scheduler is running, every change of the active
\* editor to another editor resets the character count to 0 and dismisses a
\* displayed bubble (panel told to hide it, flag cleared, dismiss counter 0);
\* a change to no editor at all leaves count, bubble and dismiss counter alone.
C15_EditorSwitchResets ==
  [][ (lastEvent'.op = "editorChanged" /\ isRunning) =>
        IF lastEvent'.active
          THEN /\ cumulativeCharacterCount' = 0
               /\ ~isSpeechBubbleVisible'
               /\ charactersSinceBubbleShown' = 0
               /\ isSpeechBubbleVisible => ~bubbleShown'
          ELSE /\ cumulativeCharacterCount' = cumulativeCharacterCount
               /\ isSpeechBubbleVisible' = isSpeechBubbleVisible
               /\ charactersSinceBubbleShown' = charactersSinceBubbleShown
               /\ bubbleShown' = bubbleShown ]_vars

\* C15 witness: the running scheduler has just handled a switch to another
\* editor by dismissing the bubble that was up; the count is 0
C15_Witness ==
  /\ isRunning
  /\ lastEvent = Event("editorChanged", 0, TRUE, "hideSpeechBubble")
  /\ hasActiveEditor
  /\ cumulativeCharacterCount = 0
  /\ ~isSpeechBubbleVisible
  /\ ~bubbleShown
  /\ charactersSinceBubbleShown = 0

(***************************************************************************)
(* Properties of the API key store (specification SpecKey)                 *)
(***************************************************************************)
\* C16: getApiKey returns exactly the string of the most recent setApiKey,
\* the empty string and a very long one included, when no clearApiKey
\* followed it, and undefined when the most recent operation was clearApiKey
\* or no key was ever stored; nothing but these two operations changes it.
C16_ApiKeyRoundTrip ==
  [][ /\ lastEvent'.op = "setApiKey" =>
           /\ getApiKey(secret').present
           /\ getApiKey(secret').value = lastEvent'.key
      /\ lastEvent'.op = "clearApiKey" => ~getApiKey(secret').present
      /\ lastEvent'.op \notin {"setApiKey", "clearApiKey"} =>
           /\ getApiKey(secret') = getApiKey(secret)
           /\ lastEvent.op = "init" => ~getApiKey(secret).present ]_vars

\* C16 witness: the empty string was stored last, and getApiKey returns the
\* empty string, not undefined
C16_Witness ==
  /\ lastEvent.op = "setApiKey"
  /\ lastEvent.key = ""
  /\ getApiKey(secret).present
  /\ getApiKey(secret).value = ""

\* C17: each setApiKey and each clearApiKey fires the configuration-changed
\* notification exactly once, with the secret store already updated, and
\* every registered listener receives it (activate()'s listener resets the
\* scheduler's character count).
C17_KeyChangeNotifiesOnce ==
  [][ lastEvent'.op \in {"setApiKey", "clearApiKey"} =>
        /\ lastEvent'.fired = 1
        /\ lastEvent'.saw = secret'
        /\ lastEvent'.saw = (IF lastEvent'.op = "setApiKey"
                               THEN [present |-> TRUE, value |-> lastEvent'.key]
                               ELSE [present |-> FALSE, value |-> ""])
        /\ lastEvent'.received = Listeners
        /\ cumulativeCharacterCount' = 0 ]_vars

\* C17 witness: after enough typing to start a generation, clearApiKey ran
\* on a stored key; its one notification reached the listener and the count
\* is 0
C17_Witness ==
  /\ Len(generations) >= 1
  /\ lastEvent.op = "clearApiKey"
  /\ lastEvent.fired = 1
  /\ lastEvent.received = {"updateFrequency"}
  /\ ~secret.present
  /\ isRunning
  /\ cumulativeCharacterCount = 0

\* C19 as stated: the scheduler is stopped initially, running after every
\* start and stopped after every stop; the character count is 0 right after
\* each of start, stop, updateFrequency and resetCharacterCount; text changes
\* that arrive while it is stopped change neither the count nor start a
\* generation.
C19_CountZeroAfterEveryStart ==
  [][ /\ lastEvent.op = "init" => ~isRunning
      /\ lastEvent'.op = "start" => isRunning'
      /\ lastEvent'.op = "stop" => ~isRunning'
      /\ lastEvent'.op \in {"start", "stop", "configChanged", "reset"} =>
           cumulativeCharacterCount' = 0
      /\ (lastEvent'.op = "textChange" /\ ~isRunning) =>
           /\ cumulativeCharacterCount' = cumulativeCharacterCount
           /\ generations' = generations ]_vars

\* C19 amended: as stated, except that only a start that finds the scheduler
\* stopped zeroes the count; a start on a running scheduler changes nothing.
C19_StartStopIdempotent ==
  [][ /\ lastEvent.op = "init" => (~isRunning /\ cumulativeCharacterCount = 0)
      /\ lastEvent'.op = "start" =>
           /\ isRunning'
           /\ cumulativeCharacterCount' = (IF isRunning THEN cumulativeCharacterCount ELSE 0)
      /\ lastEvent'.op = "stop" => (~isRunning' /\ cumulativeCharacterCount' = 0)
      /\ lastEvent'.op \in {"configChanged", "reset"} =>
           /\ cumulativeCharacterCount' = 0
           /\ isRunning' = isRunning
      /\ (lastEvent'.op = "textChange" /\ ~isRunning) =>
           /\ cumulativeCharacterCount' = cumulativeCharacterCount
           /\ generations' = generations
      /\ lastEvent'.op \notin {"start", "stop"} => isRunning' = isRunning ]_vars

\* C19 witness: start was called on a scheduler that was running with 50
\* characters counted; it is still running and the 50 are still counted
C19_Witness ==
  /\ lastEvent.op = "start"
  /\ isRunning
  /\ cumulativeCharacterCount = 50

\* C20: the processing indicator is shown whenever at least one commentary
\* generation is in progress, and is hidden only when none is in progress
C20_IndicatorWhileGenerating ==
  /\ (Len(generations) > 0 => processingShown)
  /\ (processingShown => Len(generations) > 0)

\* C22: no failure of a generation stops the scheduler. The error of a failed
\* automatic generation does not leave the text-change handler; the failure
\* changes neither the running flag nor the count, the threshold or the
\* editor; and once a generation has failed, text changes of the active
\* document are still counted and the one at which the count reaches the
\* threshold starts a new automatic generation.
C22_FailureDoesNotStopScheduler ==
  [][ /\ lastEvent'.op = "rejected" =>
           /\ lastEvent'.trigger = "auto" => lastEvent'.thrownTo # "caller"
           /\ generationFailed'
           /\ isRunning' = isRunning
           /\ cumulativeCharacterCount' = cumulativeCharacterCount
           /\ commentaryFrequency' = commentaryFrequency
           /\ hasActiveEditor' = hasActiveEditor
      /\ (generationFailed /\ ActiveTextChangeStep /\ commentaryFrequency > 0) =>
           LET total == cumulativeCharacterCount + lastEvent'.added
           IN  IF total >= commentaryFrequency
                 THEN /\ Len(generations') = Len(generations) + 1
                      /\ LastGeneration(generations').trigger = "auto"
                 ELSE cumulativeCharacterCount' = total ]_vars

\* C22 witness: a generation has failed, the scheduler is still running, and
\* an edit of 50 characters has just brought the count to the threshold of 200
\* and started a new automatic generation
C22_Witness ==
  /\ generationFailed
  /\ isRunning /\ hasActiveEditor
  /\ commentaryFrequency = 200
  /\ lastEvent = Event("textChange", 50, TRUE, "none")
  /\ cumulativeCharacterCount = 0
  /\ Len(generations) = 1
  /\ LastGeneration(generations).trigger = "auto"

\* the step in which handleTextChange starts an automatic generation
AutomaticTriggerStep ==
  /\ lastEvent'.op = "textChange"
  /\ Len(generations') = Len(generations) + 1

ReplayInProgress == calls[0].pc # "none"

\* C25: at most one processRetryQueue loop is under way at any time, however
\* many requests are enqueued meanwhile: the flag isProcessingQueue says
\* whether one is, an enqueueing during a drain starts none, and the one
\* replay in progress is that of the item at the head of the queue.
C25_SingleQueueWorker ==
  /\ activeWorkers \in {0, 1}
  /\ isProcessingQueue <=> activeWorkers = 1
  /\ isProcessingQueue <=> worker # "idle"
  /\ ReplayInProgress =>
       /\ worker = "awaiting"
       /\ Len(retryQueue) > 0
       /\ calls[0].item = HeadItem(retryQueue).id

\* C25 witness: two requests were enqueued, the second while the loop was
\* replaying the first; one loop is under way and replays the first
C25_Witness ==
  /\ Len(retryQueue) = 2
  /\ calls[1].pc = "queued"
  /\ calls[2].pc = "queued"
  /\ activeWorkers = 1
  /\ worker = "awaiting"
  /\ calls[0].item = 1
  /\ calls[0].pc = "fetch"

\* s is t with one element taken out
OneRemoved(s, t) ==
  /\ Len(s) = Len(t) - 1
  /\ \E i \in 1..Len(t) : s = RemoveAt(t, i)

C27_CounterInvariants ==
  [][ /\ cumulativeCharacterCount >= 0
      /\ cumulativeCharacterCount' >= 0
      /\ cumulativeCharacterCount' < cumulativeCharacterCount =>
           cumulativeCharacterCount' = 0
      /\ (lastEvent'.op = "textChange" /\ (lastEvent'.added = 0 \/ ~lastEvent'.active)) =>
           cumulativeCharacterCount' \in {cumulativeCharacterCount, 0}
      /\ (lastEvent'.op = "textChange" /\ ~lastEvent'.active) =>
           cumulativeCharacterCount' = cumulativeCharacterCount
      /\ ~isSpeechBubbleVisible => charactersSinceBubbleShown = 0
      /\ ~isSpeechBubbleVisible' => charactersSinceBubbleShown' = 0 ]_vars

\* C27 witness: under threshold 200 the running scheduler has counted 15
\* characters and has just handled a deletion in the active document: the
\* count is 15, no bubble is held visible and the dismiss counter is 0
C27_Witness ==
  /\ isRunning /\ hasActiveEditor
  /\ commentaryFrequency = 200
  /\ lastEvent = Event("textChange", 0, TRUE, "none")
  /\ bubbleShown = FALSE
  /\ ~isSpeechBubbleVisible
  /\ charactersSinceBubbleShown = 0
  /\ cumulativeCharacterCount = 15
  /\ generations = <<>>

C29_ManualTriggerFrame ==
  [][ /\ lastEvent'.op = "manual" =>
           /\ cumulativeCharacterCount' = cumulativeCharacterCount
           /\ isRunning' = isRunning
           /\ IF hasActiveEditor
                THEN /\ Len(generations') = Len(generations) + 1
                     /\ LastGeneration(generations').trigger = "manual"
                ELSE /\ generations' = generations
                     /\ lastEvent'.notice = "NoActiveEditorWarning"
      /\ lastEvent'.op \in {"resolved", "rejected"} =>
           /\ cumulativeCharacterCount' = cumulativeCharacterCount
           /\ isRunning' = isRunning ]_vars

\* C29 witness: the scheduler is running under threshold 200 with 170
\* characters counted; a manual trigger has just started a generation and the
\* count is still 170
C29_Witness ==
  /\ isRunning /\ hasActiveEditor
  /\ commentaryFrequency = 200
  /\ cumulativeCharacterCount = 170
  /\ lastEvent = Event("manual", 0, TRUE, "none")
  /\ generations = <<[trigger |-> "manual"]>>


\* a step in which invocation c passes its key check while the stored
\* credential is the empty string
EmptyKeyStep(c) ==
  /\ calls[c].pc = "getKey"
  /\ calls'[c].pc # "getKey"
  /\ secret = StoredSecret("")

\* C30: with the empty string stored, getApiKey returns the empty string and
\* not undefined, and generateCommentary rejects with the 'API key not
\* configured' error without issuing a fetch or touching the retry queue, as
\* it does with no credential stored.
C30_EmptyKeyLikeAbsent ==
  [][ \A c \in 0..MaxRequests :
        EmptyKeyStep(c) =>
          /\ getApiKey(secret).present
          /\ getApiKey(secret).value = ""
          /\ Truthy(getApiKey(secret)) = Truthy(getApiKey(NoSecret))
          /\ calls'[c].pc = "rejected"
          /\ calls'[c].err = MSG_API_KEY_MISSING
          /\ ~calls'[c].sent
          /\ calls'[c].ticket = 0
          /\ retryQueue' = retryQueue ]_vars

\* C30 witness: the empty string is stored and a caller's call has been
\* rejected for the missing key with no fetch issued
C30_Witness ==
  /\ secret = StoredSecret("")
  /\ calls[1].pc = "rejected"
  /\ calls[1].by = "self"
  /\ calls[1].err = MSG_API_KEY_MISSING
  /\ ~calls[1].sent
  /\ calls[1].ticket = 0

====
